---- MODULE Spec2Model ----
(***************************************************************************)
(* A model of proctor's process inspection and caching engine              *)
(* (github.com/arctir/proctor): the LinuxInspector process store of        *)
(* plib/linux.go (in-memory table, gob snapshot, live scan of procfs), the *)
(* per-process loader, the ancestry walk and fingerprint of the CLI        *)
(* (proctor/cmd/cmd.go), the name-based resolver                           *)
(* RunGetProcessForRelationship, and the web UI's handlers (ui/ui.go).     *)
(*                                                                         *)
(* Six specifications share the variables: Spec (calls on one inspector    *)
(* while the files around it change), SpecScan (the same calls over procfs *)
(* roots of every layout, also roots other than /proc), SpecList (the same *)
(* calls over roots that hold entries other than process directories),     *)
(* SpecWalk (the commands that follow parent links, step by step), SpecUI  *)
(* (concurrent HTTP handlers on one inspector, statement by statement) and *)
(* SpecStat (the stat parser LoadStat2 on stat files of every shape).      *)
(*                                                                         *)
(* Go strings are sequences of one-character strings, so that Split, Atoi  *)
(* and concatenation are computed as the code computes them.               *)
(***************************************************************************)
EXTENDS Integers, Sequences, FiniteSets, TLC

VARIABLES
    cfg,      \* the inspector's configuration (IgnoreCache and the inclusion flags)
    ps,       \* LinuxInspector.ps, the in-memory table (nil or a map)
    cache,    \* the snapshot file <CacheFilePath>/proc.cache
    procfs,   \* the procfs root: whether it can be listed, and its entries
    ret,      \* what the last Inspector call returned and which files it touched
    cli,      \* one CLI command (tree, finger-print, relation) in progress
    ui,       \* the web UI: its concurrent HTTP handlers
    statfile  \* one stat file handed to LoadStat2, and the ProcessStat parsed

vars == <<cfg, ps, cache, procfs, ret, cli, ui, statfile>>

----------------------------------------------------------------------------
(* Bounds of the model *)

\* process IDs are 1..MaxPid
MaxPid == 3
\* the ancestry loops are followed for at most MaxSteps iterations
MaxSteps == 5
\* width, in bytes, of the digest stand-in
DigestBytes == 2
\* width, in bits, of Go's int and of the kernel's unsigned long (64 on the
\* platforms proctor runs on; the model keeps the arithmetic, at this width)
IntBits == 16

Pids == 1..MaxPid

----------------------------------------------------------------------------
(* Strings *)

permDenied == <<"P","E","R","M","_","D","E","N","I","E","D">>
statError == <<"E","R","R","O","R","_","R","E","A","D","I","N","G","_","S","T","A","T">>
errorUnknown == <<"E","R","R","O","R","_","U","N","K","N","O","W","N">>

Digits == <<"0","1","2","3","4","5","6","7","8","9">>
HexDigits == <<"0","1","2","3","4","5","6","7","8","9","a","b","c","d","e","f">>

IsDigit(c) == \E i \in 1..10 : Digits[i] = c
DigitVal(c) == (CHOOSE i \in 1..10 : Digits[i] = c) - 1

\* the byte of a character ([]byte(s)), for the characters the model uses
Letters == <<"A","D","E","G","I","K","M","N","O","P","R","S","T","U","W","_">>
LetterCodes == <<65,68,69,71,73,75,77,78,79,80,82,83,84,85,87,95>>
CharByte(c) ==
    IF \E i \in 1..10 : Digits[i] = c
    THEN 47 + (CHOOSE i \in 1..10 : Digits[i] = c)
    ELSE IF \E i \in 11..16 : HexDigits[i] = c
    THEN 86 + (CHOOSE i \in 11..16 : HexDigits[i] = c)
    ELSE IF \E i \in 1..Len(Letters) : Letters[i] = c
    THEN LetterCodes[CHOOSE i \in 1..Len(Letters) : Letters[i] = c]
    ELSE 63

Bytes(s) == [i \in 1..Len(s) |-> CharByte(s[i])]

\* strings.Split(s, sep) for a one-character separator: the pieces between
\* the separators (and the ends of s), empty pieces included
SepAt(s, sep, k) ==
    IF k = 0 THEN 0
    ELSE IF k > Cardinality({j \in 1..Len(s) : s[j] = sep}) THEN Len(s) + 1
    ELSE CHOOSE p \in 1..Len(s) :
            s[p] = sep /\ Cardinality({j \in 1..(p - 1) : s[j] = sep}) = k - 1

Split(s, sep) ==
    [k \in 1..(Cardinality({j \in 1..Len(s) : s[j] = sep}) + 1) |->
        SubSeq(s, SepAt(s, sep, k - 1) + 1, SepAt(s, sep, k) - 1)]

\* strconv.Itoa
RECURSIVE Itoa(_)
Itoa(n) ==
    IF n < 0 THEN <<"-">> \o Itoa(0 - n)
    ELSE IF n < 10 THEN <<Digits[n + 1]>>
    ELSE Itoa(n \div 10) \o <<Digits[(n % 10) + 1]>>

\* the largest and the smallest int, and the largest unsigned long
MaxInt == 2^(IntBits - 1) - 1
MinInt == 0 - 2^(IntBits - 1)
MaxUint == 2^IntBits - 1

\* the magnitude of a digit string, as strconv.ParseUint accumulates it: the
\* loop stops as soon as the value is beyond every int
RECURSIVE DigitsValue(_, _, _)
DigitsValue(s, i, acc) ==
    IF i > Len(s) \/ acc > MaxInt + 1 THEN acc
    ELSE DigitsValue(s, i + 1, acc * 10 + DigitVal(s[i]))

\* the value Atoi returns for a well-formed number of this sign and magnitude:
\* out of range, the nearest int, with an error
AtoiRange(neg, un) ==
    IF ~neg /\ un > MaxInt THEN [v |-> MaxInt, err |-> TRUE]
    ELSE IF neg /\ un > MaxInt + 1 THEN [v |-> MinInt, err |-> TRUE]
    ELSE [v |-> IF neg THEN 0 - un ELSE un, err |-> FALSE]

\* strconv.Atoi: the value and whether an error is returned.  A token that
\* is not a number returns 0 with an error, a number that does not fit an
\* int returns the nearest int with an error.
Atoi(s) ==
    LET signed == Len(s) > 0 /\ s[1] \in {"-", "+"}
        body == IF signed THEN SubSeq(s, 2, Len(s)) ELSE s
    IN IF Len(body) = 0 \/ \E i \in 1..Len(body) : ~IsDigit(body[i])
       THEN [v |-> 0, err |-> TRUE]
       ELSE AtoiRange(signed /\ s[1] = "-", DigitsValue(body, 1, 0))

----------------------------------------------------------------------------
(* Digests *)

\* crypto/sha256 stand-in: a deterministic function from a byte string to
\* DigestBytes bytes.  The model only relies on the digest being a function
\* of its input.
RECURSIVE MixFrom(_, _, _, _)
MixFrom(b, i, k, acc) ==
    IF i > Len(b) THEN acc
    ELSE MixFrom(b, i + 1, k, (acc * 31 + b[i] * (k + i) + k) % 256)

Sum256(b) == [k \in 1..DigestBytes |-> MixFrom(b, 1, k, (17 * k + Len(b)) % 256)]

\* hex.EncodeToString and fmt.Sprintf("%x", bytes): two lowercase hex digits per byte
RECURSIVE EncodeToString(_)
EncodeToString(b) ==
    IF Len(b) = 0 THEN <<>>
    ELSE <<HexDigits[(b[1] \div 16) + 1], HexDigits[(b[1] % 16) + 1]>>
         \o EncodeToString(Tail(b))

----------------------------------------------------------------------------
(* The filesystem the inspector reads: procfs entries, exe links, binaries *)

\* What kinds of process directory the model's procfs holds:
\*   usera, userb  exe links to a readable binary (/a, /b)
\*   kernel        no exe link target (a kernel task, or a test directory
\*                 holding only a stat file)
\*   denied        reading the exe link is denied
\*   deleted       the exe link names a binary that cannot be opened
Kinds == <<"usera", "kernel", "denied", "userb", "deleted">>

\* the kind of the directory of pid p in the procfs layout numbered v: the
\* layouts below Len(Kinds) rotate the kinds over the pids, and in the
\* layouts from Len(Kinds) on every process runs the one binary /a
KindOf(p, v) ==
    IF v >= Len(Kinds) THEN "usera" ELSE Kinds[((p + v - 1) % Len(Kinds)) + 1]

pathA == <<"/", "a">>
pathB == <<"/", "b">>
pathGone == <<"/", "c">>

\* os.Readlink(<root>/<pid>/exe): k is "ok", "perm" (os.IsPermission),
\* "noent" (os.IsNotExist) or "other"
ExeLink(kind) ==
    CASE kind = "usera" -> [k |-> "ok", path |-> pathA]
      [] kind = "userb" -> [k |-> "ok", path |-> pathB]
      [] kind = "deleted" -> [k |-> "ok", path |-> pathGone]
      [] kind = "denied" -> [k |-> "perm", path |-> <<>>]
      [] OTHER -> [k |-> "noent", path |-> <<>>]

\* os.Readlink(/proc/<pid>/exe), which LoadProcessName reads whatever procfs
\* root is configured.  sys is the layout of /proc: that of the configured
\* root when the root is /proc, another when the root is a directory of its
\* own, and negative when /proc holds no such pid
SysExeLink(p, sys) ==
    IF sys < 0 THEN [k |-> "noent", path |-> <<>>] ELSE ExeLink(KindOf(p, sys))

\* os.Open(path) succeeds
Readable(path) == path \in {pathA, pathB}

\* the bytes of an executable
FileContent(path) == IF path = pathA THEN <<1>> ELSE <<2>>

\* the comm field of the stat record
CommOf(kind) ==
    CASE kind = "usera" -> <<"(", "a", ")">>
      [] kind = "userb" -> <<"(", "b", ")">>
      [] kind = "kernel" -> <<"(", "k", ")">>
      [] OTHER -> <<"(", "x", ")">>

\* the content of <root>/<pid>/stat for a process of this kind and parent
StatFile(p, kind, ppid) ==
    Itoa(p) \o <<" ">> \o CommOf(kind) \o <<" ", "S", " ">> \o Itoa(ppid)
        \o <<" ">> \o Itoa(p)

\* A procfs root: whether os.ReadDir succeeds on it, the layout of its
\* process directories, the layout of /proc, for each process directory
\* its parent pid, and the names of the root's other entries.
NoProcfs == [exists |-> FALSE, v |-> 0, sys |-> 0, dir |-> <<>>, other |-> {}]

----------------------------------------------------------------------------
(* The stat parser (LoadStat2) and the process loader (LoadProcessStat) *)

ZeroStat == [ID |-> 0, FileName |-> <<>>, State |-> <<>>, ParentID |-> 0,
             ProcessGroup |-> 0]

\* the Nth token, or the field's zero value when the record is shorter
IntField(toks, n) == IF Len(toks) >= n THEN Atoi(toks[n]).v ELSE 0
StrField(toks, n) == IF Len(toks) >= n THEN toks[n] ELSE <<>>

\* the switch of LoadStat2 over the tokens of the record
ParseTokens(parsedStats) ==
    [ID |-> IntField(parsedStats, 1),
     FileName |-> StrField(parsedStats, 2),
     State |-> StrField(parsedStats, 3),
     ParentID |-> IntField(parsedStats, 4),
     ProcessGroup |-> IntField(parsedStats, 5)]

\* LoadStat2 on the content of a readable stat file
ParseStat(data) == ParseTokens(Split(data, " "))

\* the last element of a sequence
Last(seq) == seq[Len(seq)]

\* LoadProcessName: the last component of the exe link's target
LoadProcessName(path) == Last(Split(path, "/"))

\* LoadProcessSHA on a path that can be opened
LoadProcessSHA(path) ==
    IF path = <<>> THEN <<>> ELSE EncodeToString(Sum256(FileContent(path)))

\* a Process literal whose ParentProcess is the process group of the stat
\* record instead of its parent
MakeProcessGroupParent(pid, isK, hasPerm, name, path, sha, stat) ==
    [ID |-> pid,
     IsKernel |-> isK,
     HasPermission |-> hasPerm,
     CommandName |-> name,
     CommandPath |-> path,
     ParentProcess |-> stat.ProcessGroup,
     BinarySHA |-> sha,
     OSSpecific |-> [ptr |-> TRUE, stat |-> stat]]

\* the Process literal that ends LoadProcessStat; OSSpecific holds a pointer
\* to the ProcessStat
MakeProcess(pid, isK, hasPerm, name, path, sha, stat) ==
    [ID |-> pid,
     IsKernel |-> isK,
     HasPermission |-> hasPerm,
     CommandName |-> name,
     CommandPath |-> path,
     ParentProcess |-> stat.ParentID,
     BinarySHA |-> sha,
     OSSpecific |-> [ptr |-> TRUE, stat |-> stat]]

\* LoadProcessStat, given what the two exe links (nlink under /proc, link
\* under the configured root) and the stat file hold: the Process, or a
\* panic when the binary cannot be opened; hashed lists the path that
\* LoadProcessSHA read and hashed, if it did
BuildProcess(pid, nlink, link, data) ==
    [panic |-> link.k = "ok" /\ link.path # <<>> /\ ~Readable(link.path),
     hashed |-> IF link.k = "ok" /\ link.path # <<>> /\ Readable(link.path)
                THEN <<link.path>> ELSE <<>>,
     p |-> MakeProcess(
             pid,
             nlink.k = "noent",
             nlink.k # "perm",
             CASE nlink.k = "ok" -> LoadProcessName(nlink.path)
               [] nlink.k = "perm" -> permDenied
               [] nlink.k = "noent" -> Split(data, " ")[2]
               [] OTHER -> errorUnknown,
             CASE link.k = "ok" -> link.path
               [] link.k = "perm" -> permDenied
               [] OTHER -> statError,
             CASE link.k = "ok" /\ Readable(link.path) -> LoadProcessSHA(link.path)
               [] link.k = "ok" -> <<>>
               [] link.k = "perm" -> permDenied
               [] OTHER -> statError,
             ParseStat(data))]

LoadProcessStat(fs, pid) ==
    BuildProcess(pid, SysExeLink(pid, fs.sys), ExeLink(KindOf(pid, fs.v)),
                 StatFile(pid, KindOf(pid, fs.v), fs.dir[pid]))

----------------------------------------------------------------------------
(* The whole schema of the stat parser (LoadStat2), field by field *)

\* the cases of the switch of LoadStat2: field n is set by token n
NumFields == 52
\* the fields kept as the token itself (FileName, State, TaskFlags)
StrFields == {2, 3, 9}
\* the fields kept as a hexadecimal address
HexFields == {26, 27, 28} \cup (45..51)

\* fmt.Sprintf("%x", d)
RECURSIVE Hex(_)
Hex(n) ==
    IF n < 0 THEN <<"-">> \o Hex(0 - n)
    ELSE IF n < 16 THEN <<HexDigits[n + 1]>>
    ELSE Hex(n \div 16) \o <<HexDigits[(n % 16) + 1]>>

\* ConvertToHexMemoryAddress: the error of Atoi is dropped
ConvertToHexMemoryAddress(decimalAddr) == <<"0", "x">> \o Hex(Atoi(decimalAddr).v)

\* the zero value of field n of ProcessStat
ZeroField(n) == IF n \in StrFields \cup HexFields THEN <<>> ELSE 0

\* the assignment of case n-1 of the switch: the error of Atoi is dropped
ConvField(n, tok) ==
    IF n \in StrFields THEN tok
    ELSE IF n \in HexFields THEN ConvertToHexMemoryAddress(tok)
    ELSE Atoi(tok).v

\* a loop that takes field n from token n + 1
StatFieldsShifted(parsedStats) ==
    [n \in 1..NumFields |->
        IF n + 1 <= Len(parsedStats) THEN ConvField(n, parsedStats[n + 1]) ELSE ZeroField(n)]

\* the loop of LoadStat2 over the tokens: token n sets field n, a token past
\* the last case sets nothing, a field without token keeps its zero value
StatFields(parsedStats) ==
    [n \in 1..NumFields |->
        IF n <= Len(parsedStats) THEN ConvField(n, parsedStats[n]) ELSE ZeroField(n)]

\* the tokens with a parenthesized filename put together again: the tokens
\* from the second up to the first that ends in ")" become one
RECURSIVE RejoinFrom(_, _, _)
RejoinFrom(toks, i, comm) ==
    IF i > Len(toks) THEN <<toks[1], comm>>
    ELSE IF Len(comm) > 0 /\ comm[Len(comm)] = ")"
    THEN <<toks[1], comm>> \o SubSeq(toks, i, Len(toks))
    ELSE RejoinFrom(toks, i + 1, comm \o <<" ">> \o toks[i])

Rejoin(toks) == IF Len(toks) < 2 THEN toks ELSE RejoinFrom(toks, 3, toks[2])

\* a LoadStat2 that rejoins the filename before it reads the fields
LoadStat2Rejoined(f) ==
    IF ~f.readable THEN StatFields(<<>>) ELSE StatFields(Rejoin(Split(f.data, " ")))

\* LoadStat2: the zero ProcessStat when the file cannot be read, else the
\* fields of the record split at every space
LoadStat2(f) ==
    IF ~f.readable THEN StatFields(<<>>) ELSE StatFields(Split(f.data, " "))

\* strings.Join(toks, sep)
RECURSIVE Join(_, _)
Join(toks, sep) ==
    IF Len(toks) = 0 THEN <<>>
    ELSE IF Len(toks) = 1 THEN toks[1]
    ELSE toks[1] \o <<sep>> \o Join(Tail(toks), sep)

----------------------------------------------------------------------------
(* The process store: LinuxInspector of plib/linux.go *)

\* Processes is a Go map: nil, or a map (possibly empty) from pid to Process
NilPs == [nil |-> TRUE, m |-> <<>>]
Tab(m) == [nil |-> FALSE, m |-> m]

\* byte-wise order of two names, as os.ReadDir sorts a directory listing
RECURSIVE StrLess(_, _)
StrLess(a, b) ==
    IF Len(b) = 0 THEN FALSE
    ELSE IF Len(a) = 0 THEN TRUE
    ELSE IF a[1] # b[1] THEN CharByte(a[1]) < CharByte(b[1])
    ELSE StrLess(Tail(a), Tail(b))

RECURSIVE SortNames(_)
SortNames(names) ==
    IF names = {} THEN <<>>
    ELSE SortNames({n \in names : \E o \in names : StrLess(n, o)})
         \o <<CHOOSE n \in names : \A o \in names : ~StrLess(n, o)>>

\* os.ReadDir(procfsFp): the names of the root's entries, the process
\* directories and the others, sorted by name
ReadDir(fs) == SortNames({Itoa(p) : p \in DOMAIN fs.dir} \cup fs.other)

\* getPIDsFromProcfs: the pids of the listing, up to the first name that is
\* not a number
RECURSIVE PidsOfListing(_, _)
PidsOfListing(names, i) ==
    IF i > Len(names) THEN <<>>
    ELSE (IF Atoi(names[i]).err THEN <<>>
          ELSE <<Atoi(names[i]).v>> \o PidsOfListing(names, i + 1))

getPIDsFromProcfs(fs) == PidsOfListing(ReadDir(fs), 1)

\* m[pid] = p
Put(m, pid, p) == [q \in DOMAIN m \cup {pid} |-> IF q = pid THEN p ELSE m[q]]

\* the loop of LoadProcesses over the pids: the table built, whether
\* LoadProcessStat panicked, which leaves the table built so far, and the
\* paths hashed, in the order they were hashed
RECURSIVE ScanFrom(_, _, _, _, _)
ScanNext(fs, pids, i, acc, hashed, r) ==
    IF r.panic THEN [panic |-> TRUE, m |-> acc, hashed |-> hashed]
    ELSE ScanFrom(fs, pids, i + 1, Put(acc, pids[i], r.p), hashed \o r.hashed)

ScanFrom(fs, pids, i, acc, hashed) ==
    IF i > Len(pids) THEN [panic |-> FALSE, m |-> acc, hashed |-> hashed]
    ELSE ScanNext(fs, pids, i, acc, hashed, LoadProcessStat(fs, pids[i]))

\* gob: an interface value travels under the name registered for its base
\* type, so a *ProcessStat is written as a ProcessStat and read back as one
GobEncode(m) ==
    [p \in DOMAIN m |-> [m[p] EXCEPT !.OSSpecific =
                            [name |-> "ProcessStat", stat |-> m[p].OSSpecific.stat]]]
GobDecode(w) ==
    [p \in DOMAIN w |-> [w[p] EXCEPT !.OSSpecific =
                            [ptr |-> FALSE, stat |-> w[p].OSSpecific.stat]]]

\* the snapshot file: absent, not decodable (empty, truncated), or a gob
NoCache == [state |-> "absent", w |-> <<>>]
BadCache == [state |-> "garbage", w |-> <<>>]

\* encodeProcessCache: os.Create truncates the file, Encode fills it.
\* io is what the filesystem does: "ok", "create" (Stat, MkdirAll or Create
\* fails, file untouched) or "encode" (Encode fails on the truncated file)
encodeProcessCache(c, m, io) ==
    CASE io = "ok" -> [cache |-> [state |-> "gob", w |-> GobEncode(m)], err |-> FALSE,
                       wrote |-> TRUE]
      [] io = "create" -> [cache |-> c, err |-> TRUE, wrote |-> FALSE]
      [] OTHER -> [cache |-> BadCache, err |-> TRUE, wrote |-> TRUE]

\* loadProcessesFromCache that never yields a table (the snapshot tier lost)
loadProcessesFromCacheNil(c) == NilPs

\* loadProcessesFromCache that yields an empty table, not nil, for a file it
\* cannot open or decode
loadProcessesFromCacheEmpty(c) ==
    IF c.state # "gob" THEN Tab(<<>>)
    ELSE IF Cardinality(DOMAIN c.w) < 1 THEN NilPs
    ELSE Tab(GobDecode(c.w))

\* loadProcessesFromCache: nil on any failure and on an empty table
loadProcessesFromCache(c) ==
    IF c.state # "gob" THEN NilPs
    ELSE IF Cardinality(DOMAIN c.w) < 1 THEN NilPs
    ELSE Tab(GobDecode(c.w))

\* clearProcessCache that reports success without removing the file
clearProcessCacheKeep(c, removeOk) == [cache |-> c, err |-> FALSE]

\* clearProcessCache for which a missing file is an error
clearProcessCacheStrict(c, removeOk) ==
    IF c.state = "absent" THEN [cache |-> c, err |-> TRUE]
    ELSE [cache |-> NoCache, err |-> ~removeOk]

\* clearProcessCache: os.Remove; a missing file is no error
clearProcessCache(c, removeOk) ==
    IF c.state = "absent" THEN [cache |-> c, err |-> FALSE]
    ELSE IF removeOk THEN [cache |-> NoCache, err |-> FALSE]
    ELSE [cache |-> c, err |-> TRUE]

\* PersistScan that writes the snapshot whatever IgnoreCache says
PersistScanAlways(c, scan, ignoreCache, enc) ==
    [ps |-> Tab(scan.m), cache |-> enc.cache, err |-> IF enc.err THEN "encode" ELSE "",
     readProcfs |-> TRUE, wrote |-> enc.wrote, hashed |-> scan.hashed]

\* LoadProcesses from line 52 on: the table is built, the snapshot is
\* written unless IgnoreCache
PersistScan(c, scan, ignoreCache, enc) ==
    IF ignoreCache
    THEN [ps |-> Tab(scan.m), cache |-> c, err |-> "", readProcfs |-> TRUE,
          wrote |-> FALSE, hashed |-> scan.hashed]
    ELSE [ps |-> Tab(scan.m), cache |-> enc.cache,
          err |-> IF enc.err THEN "encode" ELSE "",
          readProcfs |-> TRUE, wrote |-> enc.wrote, hashed |-> scan.hashed]

\* LoadProcesses after the listing is read
AfterScan(c, scan, ignoreCache, io) ==
    IF scan.panic
    THEN [ps |-> Tab(scan.m), cache |-> c, err |-> "panic",
          readProcfs |-> TRUE, wrote |-> FALSE, hashed |-> scan.hashed]
    ELSE PersistScan(c, scan, ignoreCache, encodeProcessCache(c, scan.m, io))

\* LoadProcesses that returns nil when the root cannot be listed
LoadProcessesCallNoListError(c, fs, ignoreCache, io) ==
    IF ~fs.exists
    THEN [ps |-> Tab(<<>>), cache |-> c, err |-> "",
          readProcfs |-> TRUE, wrote |-> FALSE, hashed |-> <<>>]
    ELSE AfterScan(c, ScanFrom(fs, getPIDsFromProcfs(fs), 1, <<>>, <<>>), ignoreCache, io)

\* LinuxInspector.LoadProcesses as one call.  err is "" (nil), "readdir",
\* "encode" or "panic"; readProcfs says that os.ReadDir was called and wrote
\* that the snapshot file was changed
LoadProcessesCall(c, fs, ignoreCache, io) ==
    IF ~fs.exists
    THEN [ps |-> Tab(<<>>), cache |-> c, err |-> "readdir",
          readProcfs |-> TRUE, wrote |-> FALSE, hashed |-> <<>>]
    ELSE AfterScan(c, ScanFrom(fs, getPIDsFromProcfs(fs), 1, <<>>, <<>>), ignoreCache, io)

\* GetProcesses from line 83 on, l being the table after the snapshot tier
GetAfterCache(l, load, readCache) ==
    IF ~l.nil
    THEN [ps |-> l, cache |-> load.cache, err |-> "", readCache |-> readCache,
          readProcfs |-> FALSE, wrote |-> FALSE, hashed |-> <<>>]
    ELSE [ps |-> load.ps, cache |-> load.cache, err |-> load.err, readCache |-> readCache,
          readProcfs |-> load.readProcfs, wrote |-> load.wrote, hashed |-> load.hashed]

\* what stands for a LoadProcesses that is not called
NoLoad(c) == [ps |-> NilPs, cache |-> c, err |-> "", readProcfs |-> FALSE, wrote |-> FALSE,
              hashed |-> <<>>]

\* GetProcesses that rescans whatever the in-memory table holds
GetProcessesRescan(l, c, fs, ignoreCache, io) ==
    GetAfterCache(NilPs, LoadProcessesCall(c, fs, ignoreCache, io), FALSE)

\* LinuxInspector.GetProcesses as one call: on success the table returned is
\* the ps field it leaves.  readCache says that the snapshot file was opened
GetProcessesCall(l, c, fs, ignoreCache, io) ==
    IF ~l.nil THEN GetAfterCache(l, NoLoad(c), FALSE)
    ELSE IF ignoreCache THEN GetAfterCache(l, LoadProcessesCall(c, fs, ignoreCache, io), FALSE)
    ELSE IF ~loadProcessesFromCache(c).nil
    THEN GetAfterCache(loadProcessesFromCache(c), NoLoad(c), TRUE)
    ELSE GetAfterCache(NilPs, LoadProcessesCall(c, fs, ignoreCache, io), TRUE)

----------------------------------------------------------------------------
(* Calls on one inspector, and what happens to the files around it *)

\* InspectorConfig with the LinuxConfig fields the command line sets; the cache
\* and procfs paths are the cache and procfs variables.
Configs ==
    [IgnoreCache : BOOLEAN, IncludeKernel : BOOLEAN, IncludePermissionIssues : BOOLEAN]

DefaultConfig ==
    [IgnoreCache |-> FALSE, IncludeKernel |-> FALSE, IncludePermissionIssues |-> FALSE]

\* procfs layouts the store is run against
StoreLayouts == {0, 2}

\* what the filesystem does to a write of the snapshot
IOOutcomes == {"ok", "create", "encode"}

NoRet == [op |-> "none", prev |-> "none", err |-> "", readCache |-> FALSE, readProcfs |-> FALSE,
          wrote |-> FALSE, hashed |-> <<>>]

\* no stat file is being parsed
NoStatFile == [pc |-> "none", readable |-> FALSE, fields |-> <<>>, data |-> <<>>,
               parsed |-> <<>>]

\* the CLI process: no command is running
CliIdle == [pc |-> "idle", cmd |-> "none", pid |-> 0, name |-> <<>>, cur |-> 0,
            chain |-> <<>>, hashes |-> <<>>, out |-> <<>>, err |-> ""]
\* how many requests the web UI serves at once
MaxHandlers == 2
Handlers == 1..MaxHandlers

\* a handler goroutine of the web UI that serves no request
HIdle == [pc |-> "idle", pids |-> <<>>, i |-> 0, got |-> [nil |-> TRUE, m |-> <<>>],
          err |-> ""]

\* the web UI: its handler goroutines, ui.data.PS, and whether the runtime
\* has ended the program on a concurrent map access
UiIdle == [h |-> [x \in Handlers |-> HIdle], PS |-> [nil |-> TRUE, m |-> <<>>],
           fatal |-> FALSE]

\* a panic ends the program: no further call is made on its inspector
Alive == ret.err # "panic"

Init ==
    /\ cfg \in Configs
    /\ ps = NilPs
    /\ cache = NoCache
    /\ \E v \in StoreLayouts : procfs = [exists |-> TRUE, v |-> v, sys |-> v, dir |-> <<>>, other |-> {}]
    /\ ret = NoRet
    /\ cli = CliIdle
    /\ ui = UiIdle
    /\ statfile = NoStatFile

LoadProcesses ==
    /\ Alive
    /\ \E io \in IOOutcomes :
          \E r \in {LoadProcessesCall(cache, procfs, cfg.IgnoreCache, io)} :
             /\ ps' = r.ps
             /\ cache' = r.cache
             /\ ret' = [op |-> "Load", prev |-> ret.op, err |-> r.err, readCache |-> FALSE,
                        readProcfs |-> r.readProcfs, wrote |-> r.wrote, hashed |-> r.hashed]
    /\ UNCHANGED <<statfile, cfg, procfs, cli, ui>>

GetProcesses ==
    /\ Alive
    /\ \E io \in IOOutcomes :
          \E r \in {GetProcessesCall(ps, cache, procfs, cfg.IgnoreCache, io)} :
             /\ ps' = r.ps
             /\ cache' = r.cache
             /\ ret' = [op |-> "Get", prev |-> ret.op, err |-> r.err, readCache |-> r.readCache,
                        readProcfs |-> r.readProcfs, wrote |-> r.wrote, hashed |-> r.hashed]
    /\ UNCHANGED <<statfile, cfg, procfs, cli, ui>>

ClearProcessCache ==
    /\ Alive
    /\ \E removeOk \in BOOLEAN :
          \E r \in {clearProcessCache(cache, removeOk)} :
             /\ cache' = r.cache
             /\ ret' = [op |-> "Clear", prev |-> ret.op, err |-> IF r.err THEN "remove" ELSE "",
                        readCache |-> FALSE, readProcfs |-> FALSE,
                        wrote |-> cache.state # "absent" /\ removeOk, hashed |-> <<>>]
    /\ UNCHANGED <<statfile, cfg, ps, procfs, cli, ui>>

\* NewLinuxInspector in a new program run: the table is nil, the files stay
NewInspector ==
    /\ cfg' \in Configs
    /\ ps' = NilPs
    /\ ret' = NoRet
    /\ UNCHANGED <<statfile, cache, procfs, cli, ui>>

\* a process starts under the next pid; its parent is the process started
\* before it (0 for pid 1)
EnvSpawn ==
    /\ procfs.exists
    /\ \E p \in Pids \ DOMAIN procfs.dir :
          /\ \A q \in DOMAIN procfs.dir : q < p
          /\ (p = 1 \/ p - 1 \in DOMAIN procfs.dir)
          /\ procfs' = [procfs EXCEPT !.dir =
                           [q \in DOMAIN procfs.dir \cup {p} |->
                               IF q = p THEN p - 1 ELSE procfs.dir[q]]]
    /\ UNCHANGED <<statfile, cfg, ps, cache, ret, cli, ui>>

\* the youngest process exits
EnvExit ==
    /\ \E p \in DOMAIN procfs.dir :
          /\ \A q \in DOMAIN procfs.dir : q <= p
          /\ procfs' = [procfs EXCEPT !.dir = [q \in DOMAIN procfs.dir \ {p} |-> procfs.dir[q]]]
    /\ UNCHANGED <<statfile, cfg, ps, cache, ret, cli, ui>>

\* the procfs root is removed (as the tests remove their mock procfs)
EnvRemoveProcfs ==
    /\ procfs.exists
    /\ procfs' = [procfs EXCEPT !.exists = FALSE, !.dir = <<>>]
    /\ UNCHANGED <<statfile, cfg, ps, cache, ret, cli, ui>>

\* the procfs root is created again, empty
EnvCreateProcfs ==
    /\ ~procfs.exists
    /\ procfs' = [procfs EXCEPT !.exists = TRUE]
    /\ UNCHANGED <<statfile, cfg, ps, cache, ret, cli, ui>>

\* the snapshot file is removed from outside, or left empty or truncated
EnvRemoveCache ==
    /\ cache.state # "absent"
    /\ cache' = NoCache
    /\ UNCHANGED <<statfile, cfg, ps, procfs, ret, cli, ui>>

EnvDamageCache ==
    /\ cache.state = "gob"
    /\ cache' = BadCache
    /\ UNCHANGED <<statfile, cfg, ps, procfs, ret, cli, ui>>

Env ==
    \/ EnvSpawn
    \/ EnvExit
    \/ EnvRemoveProcfs
    \/ EnvCreateProcfs
    \/ EnvRemoveCache
    \/ EnvDamageCache

Next ==
    \/ LoadProcesses
    \/ GetProcesses
    \/ ClearProcessCache
    \/ NewInspector
    \/ Env

Spec == Init /\ [][Next]_vars

----------------------------------------------------------------------------
(* The same calls on one inspector over every kind of procfs root: each
   layout of process directories, read as /proc itself or as a directory of
   its own beside a /proc that holds other processes, or none, under the
   same pids. *)

\* the layouts of a root: the rotations of Kinds and the one-binary layout
ScanLayouts == 0..Len(Kinds)

\* what /proc holds for a root of layout v: the root itself, nothing, or
\* the next rotation
SysLayouts(v) == {v, -1, (v + 1) % Len(Kinds)}

InitScan ==
    /\ cfg \in Configs
    /\ ps = NilPs
    /\ cache = NoCache
    /\ \/ \E v \in ScanLayouts, k \in 0..MaxPid :
             \E sys \in SysLayouts(v) :
                procfs = [exists |-> TRUE, v |-> v, sys |-> sys,
                          dir |-> [p \in 1..k |-> p - 1], other |-> {}]
       \/ procfs = NoProcfs
    /\ ret = NoRet
    /\ cli = CliIdle
    /\ ui = UiIdle
    /\ statfile = NoStatFile

NextScan ==
    \/ LoadProcesses
    \/ GetProcesses
    \/ ClearProcessCache
    \/ NewInspector

SpecScan == InitScan /\ [][NextScan]_vars

----------------------------------------------------------------------------
(* The same calls over roots that hold entries other than process
   directories, as /proc does. *)

\* names of entries that are not process directories: one that sorts after
\* every number (/proc/fb) and one that sorts between "1" and "2"
OtherNames == {<<"f", "b">>, <<"1", "a">>}

InitList ==
    /\ cfg \in Configs
    /\ ps = NilPs
    /\ cache = NoCache
    /\ \E k \in 0..MaxPid, other \in SUBSET OtherNames :
          procfs = [exists |-> TRUE, v |-> 0, sys |-> 0,
                    dir |-> [p \in 1..k |-> p - 1], other |-> other]
    /\ ret = NoRet
    /\ cli = CliIdle
    /\ ui = UiIdle
    /\ statfile = NoStatFile

NextList ==
    \/ LoadProcesses
    \/ GetProcesses
    \/ ClearProcessCache

SpecList == InitList /\ [][NextList]_vars

----------------------------------------------------------------------------
(* The commands that walk parent links: `proctor process tree`, `proctor
   process finger-print` (proctor/cmd/cmd.go) and the name-based resolver
   RunGetProcessForRelationship.  Each loop iteration and each recursive call
   is one step; a walk that has made MaxSteps steps is left running. *)

\* createInspectorAndGetProcesses: a new inspector (nil table, IgnoreCache
\* left false), ClearProcessCache when --reset-cache, then GetProcesses
createInspectorAndGetProcesses(c, fs, resetCache, removeOk, io) ==
    GetProcessesCall(NilPs,
                     IF resetCache THEN clearProcessCache(c, removeOk).cache ELSE c,
                     fs, FALSE, io)

\* ps[pid] == nil
Missing(t, pid) == pid \notin DOMAIN t.m

\* combinedHashes += ps[currentParentPid].BinarySHA, root first instead
combineHashesRootFirst(combinedHashes, p) == p.BinarySHA \o combinedHashes

\* combinedHashes += ps[currentParentPid].BinarySHA
combineHashes(combinedHashes, p) == combinedHashes \o p.BinarySHA

\* hex.EncodeToString of sha256.Sum256([]byte(combinedHashes))
fingerPrint(combinedHashes) == EncodeToString(Sum256(Bytes(combinedHashes)))

\* the command after the table is collected and the pid looked up, for
\* `tree` (checkSHA false) and `finger-print` (checkSHA true)
StartWalk(cmd, pid, r, checkSHA) ==
    IF r.err # ""
    THEN [CliIdle EXCEPT !.pc = "failed", !.cmd = cmd, !.pid = pid, !.err = "collect"]
    ELSE IF Missing(r.ps, pid)
    THEN [CliIdle EXCEPT !.pc = "failed", !.cmd = cmd, !.pid = pid, !.err = "notfound"]
    ELSE IF checkSHA /\ r.ps.m[pid].BinarySHA = <<>>
    THEN [CliIdle EXCEPT !.pc = "failed", !.cmd = cmd, !.pid = pid, !.err = "nosha"]
    ELSE [CliIdle EXCEPT !.pc = "walk", !.cmd = cmd, !.pid = pid,
                         !.cur = r.ps.m[pid].ParentProcess,
                         !.chain = <<pid>>,
                         !.hashes = IF checkSHA THEN r.ps.m[pid].BinarySHA ELSE <<>>]

\* the filter of the package-level GetProcesses(opts)
Include(p, opt) ==
    CASE ~opt.IncludeKernel /\ ~opt.IncludePermissionIssues -> ~p.IsKernel /\ p.HasPermission
      [] opt.IncludeKernel /\ ~opt.IncludePermissionIssues -> p.HasPermission
      [] ~opt.IncludeKernel /\ opt.IncludePermissionIssues -> ~p.IsKernel
      [] OTHER -> TRUE

\* processByID of RunGetProcessForRelationship, built from the listing
processByID(m, opt) ==
    [p \in {q \in DOMAIN m : Include(m[q], opt)} |-> m[p]]

\* processByName[name].ID: the listing is walked in order and a later
\* process of the same name replaces an earlier one; the zero Process, of
\* ID 0, for a name that is not in the map
RECURSIVE processByNameID(_, _, _, _)
processByNameID(byID, pids, i, name) ==
    IF i < 1 THEN 0
    ELSE IF pids[i] \in DOMAIN byID /\ byID[pids[i]].CommandName # <<>>
            /\ byID[pids[i]].CommandName = name
    THEN byID[pids[i]].ID
    ELSE processByNameID(byID, pids, i - 1, name)

\* pidlist[rootPID].ParentProcess, the zero Process for a missing key
ParentOf(pidlist, rootPID) ==
    IF rootPID \in DOMAIN pidlist THEN pidlist[rootPID].ParentProcess ELSE 0

\* the procfs layouts the walks run on: every process can be loaded
WalkLayouts == {0, 1}

\* the tables the walks run on: processes 1..k, each with any parent pid in
\* 0..MaxPid (a stat file, a mock procfs and a snapshot can hold any)
Worlds ==
    UNION {[1..k -> 0..MaxPid] : k \in 0..MaxPid}

\* command names asked for: those of the model's binaries and kernel tasks,
\* and one that no process has
Names == {<<"a">>, <<"b">>, <<"(", "k", ")">>, <<"z">>}

ListOpts == {[IncludeKernel |-> FALSE, IncludePermissionIssues |-> FALSE],
             [IncludeKernel |-> TRUE, IncludePermissionIssues |-> TRUE]}

\* the table {1: root, 50: parent 1, 99: parent 50}, in a layout where all
\* three can be loaded (1 denied, 50 a kernel task, 99 a user process)
ExampleTable == (1 :> 0) @@ (50 :> 1) @@ (99 :> 50)
ExampleProcfs == [exists |-> TRUE, v |-> 2, sys |-> 2, dir |-> ExampleTable, other |-> {}]

\* the pids a command is asked about
PidArgs(fs) == (0..MaxPid) \cup DOMAIN fs.dir

InitWalk ==
    /\ cfg = DefaultConfig
    /\ ps = NilPs
    /\ cache = NoCache
    /\ \/ \E v \in WalkLayouts, d \in Worlds : procfs = [exists |-> TRUE, v |-> v, sys |-> v, dir |-> d, other |-> {}]
       \/ procfs = ExampleProcfs
    /\ ret = NoRet
    /\ cli = CliIdle
    /\ ui = UiIdle
    /\ statfile = NoStatFile

\* what createInspectorAndGetProcesses did in this invocation: whether
\* --reset-cache was given, and which files GetProcesses touched
CliRet(cmd, resetCache, r) ==
    [op |-> cmd, prev |-> "none", err |-> r.err, readCache |-> r.readCache,
     readProcfs |-> r.readProcfs, wrote |-> r.wrote, hashed |-> <<>>,
     resetCache |-> resetCache]

\* runTreeProcess up to its loop
CliTree ==
    /\ cli.pc = "idle"
    /\ \E resetCache \in BOOLEAN, removeOk \in BOOLEAN, io \in IOOutcomes :
          \E r \in {createInspectorAndGetProcesses(cache, procfs, resetCache, removeOk, io)} :
             /\ ps' = r.ps
             /\ cache' = r.cache
             /\ ret' = CliRet("tree", resetCache, r)
             /\ \E pid \in PidArgs(procfs) : cli' = StartWalk("tree", pid, r, FALSE)
    /\ UNCHANGED <<statfile, cfg, procfs, ui>>

\* one iteration of the loop of runTreeProcess
TreeStep ==
    /\ cli.pc = "walk" /\ cli.cmd = "tree"
    /\ Len(cli.chain) < MaxSteps
    /\ IF cli.cur = 0 \/ Missing(ps, cli.cur)
       THEN cli' = [cli EXCEPT !.pc = "done"]
       ELSE cli' = [cli EXCEPT !.chain = Append(@, cli.cur),
                               !.cur = ps.m[cli.cur].ParentProcess]
    /\ UNCHANGED <<statfile, cfg, ps, cache, procfs, ret, ui>>

\* runFingerPrintProcess up to its loop
CliFingerPrint ==
    /\ cli.pc = "idle"
    /\ \E resetCache \in BOOLEAN, removeOk \in BOOLEAN, io \in IOOutcomes :
          \E r \in {createInspectorAndGetProcesses(cache, procfs, resetCache, removeOk, io)} :
             /\ ps' = r.ps
             /\ cache' = r.cache
             /\ ret' = CliRet("finger-print", resetCache, r)
             /\ \E pid \in PidArgs(procfs) : cli' = StartWalk("finger-print", pid, r, TRUE)
    /\ UNCHANGED <<statfile, cfg, procfs, ui>>

\* one iteration of the loop of runFingerPrintProcess, and the output after it
FingerPrintStep ==
    /\ cli.pc = "walk" /\ cli.cmd = "finger-print"
    /\ Len(cli.chain) < MaxSteps
    /\ IF cli.cur = 0
       THEN cli' = [cli EXCEPT !.pc = "done", !.out = fingerPrint(cli.hashes)]
       ELSE IF Missing(ps, cli.cur)
       THEN cli' = [cli EXCEPT !.pc = "failed", !.err = "noparent"]
       ELSE cli' = [cli EXCEPT !.hashes = combineHashes(@, ps.m[cli.cur]),
                               !.chain = Append(@, cli.cur),
                               !.cur = ps.m[cli.cur].ParentProcess]
    /\ UNCHANGED <<statfile, cfg, ps, cache, procfs, ret, ui>>

\* RunGetProcessForRelationship up to its call of resolvePIDRelationship; ps
\* holds processByID
CliRelation ==
    /\ cli.pc = "idle"
    /\ \E scan \in {ScanFrom(procfs, getPIDsFromProcfs(procfs), 1, <<>>, <<>>)} :
          \E name \in Names, opt \in ListOpts :
             IF scan.panic
             THEN /\ cli' = [CliIdle EXCEPT !.pc = "failed", !.cmd = "relation",
                                            !.name = name, !.err = "collect"]
                  /\ ps' = NilPs
             ELSE \E byID \in {processByID(scan.m, opt)} :
                     /\ ps' = Tab(byID)
                     /\ cli' = [CliIdle EXCEPT
                                   !.pc = "walk", !.cmd = "relation", !.name = name,
                                   !.cur = processByNameID(byID, getPIDsFromProcfs(procfs),
                                                           Len(getPIDsFromProcfs(procfs)), name)]
    /\ UNCHANGED <<statfile, cfg, cache, procfs, ret, ui>>

\* one call of resolvePIDRelationship
RelationStep ==
    /\ cli.pc = "walk" /\ cli.cmd = "relation"
    /\ Len(cli.chain) < MaxSteps
    /\ \E parentID \in {ParentOf(ps.m, cli.cur)} :
          IF parentID > 1
          THEN cli' = [cli EXCEPT !.chain = Append(@, cli.cur), !.cur = parentID]
          ELSE IF parentID = 1
          THEN cli' = [cli EXCEPT !.chain = @ \o <<cli.cur, 1>>, !.pc = "done"]
          ELSE cli' = [cli EXCEPT !.chain = Append(@, cli.cur), !.pc = "done"]
    /\ UNCHANGED <<statfile, cfg, ps, cache, procfs, ret, ui>>

\* the command's process ends (output written, or os.Exit(1))
CliExit ==
    /\ cli.pc \in {"done", "failed"}
    /\ cli' = CliIdle
    /\ ps' = NilPs
    /\ ret' = NoRet
    /\ UNCHANGED <<statfile, cfg, cache, procfs, ui>>

NextWalk ==
    \/ CliTree
    \/ TreeStep
    \/ CliFingerPrint
    \/ FingerPrintStep
    \/ CliRelation
    \/ RelationStep
    \/ CliExit

SpecWalk == InitWalk /\ [][NextWalk]_vars

----------------------------------------------------------------------------
(* The web UI (ui/ui.go): net/http runs each request's handler in its own
   goroutine, all on the one inspector made by New().  GetProcesses and
   LoadProcesses are taken statement by statement; no lock is held. *)

InitUI ==
    /\ cfg = DefaultConfig
    /\ ps = NilPs
    /\ cache = NoCache
    /\ \E k \in 1..MaxPid :
          procfs = [exists |-> TRUE, v |-> 0, sys |-> 0, dir |-> [p \in 1..k |-> p - 1], other |-> {}]
    /\ ret = NoRet
    /\ cli = CliIdle
    /\ ui = UiIdle
    /\ statfile = NoStatFile

\* handler h moves on
Goto(h, hs) == ui' = [ui EXCEPT !.h[h] = hs]

\* "/" arrives: GetProcesses, first statement (the snapshot tier)
UiGetFromCache(h) ==
    /\ ~ui.fatal
    /\ ui.h[h].pc = "idle"
    /\ ps' = IF ps.nil /\ ~cfg.IgnoreCache THEN loadProcessesFromCache(cache) ELSE ps
    /\ Goto(h, [HIdle EXCEPT !.pc = "check"])
    /\ UNCHANGED <<statfile, cfg, cache, procfs, ret, cli>>

\* GetProcesses, second statement: call LoadProcesses when the table is nil,
\* else return the table
UiGetCheck(h) ==
    /\ ~ui.fatal
    /\ ui.h[h].pc = "check"
    /\ IF ps.nil
       THEN Goto(h, [HIdle EXCEPT !.pc = "load"])
       ELSE Goto(h, [HIdle EXCEPT !.pc = "render", !.got = ps])
    /\ UNCHANGED <<statfile, cfg, ps, cache, procfs, ret, cli>>

\* LoadProcesses: the table is replaced by an empty one and the root is listed
UiLoadStart(h) ==
    /\ ~ui.fatal
    /\ ui.h[h].pc = "load"
    /\ ps' = Tab(<<>>)
    /\ IF procfs.exists
       THEN Goto(h, [HIdle EXCEPT !.pc = "scan", !.pids = getPIDsFromProcfs(procfs), !.i = 1])
       ELSE Goto(h, [HIdle EXCEPT !.pc = "render", !.err = "readdir"])
    /\ UNCHANGED <<statfile, cfg, cache, procfs, ret, cli>>

\* another goroutine is writing the table's map or ranging over it
Racing(h) ==
    \E g \in Handlers \ {h} : ui.h[g].pc = "scan" \/ (ui.h[g].pc = "render" /\ ~ui.h[g].got.nil)

\* LoadProcesses: l.ps[p] = &pstat for the next pid; a map write that races
\* with another goroutine's access either lands or ends the program
UiScanStep(h) ==
    /\ ~ui.fatal
    /\ ui.h[h].pc = "scan"
    /\ ui.h[h].i <= Len(ui.h[h].pids)
    /\ \/ /\ \E pid \in {ui.h[h].pids[ui.h[h].i]} :
               ps' = Tab(Put(ps.m, pid,
                             LoadProcessStat(procfs, pid).p))
          /\ Goto(h, [ui.h[h] EXCEPT !.i = @ + 1])
       \/ /\ Racing(h)
          /\ ui' = [ui EXCEPT !.fatal = TRUE]
          /\ ps' = ps
    /\ UNCHANGED <<statfile, cfg, cache, procfs, ret, cli>>

\* LoadProcesses: the snapshot is written from the table as it is now, and
\* GetProcesses returns the table
UiScanEnd(h) ==
    /\ ~ui.fatal
    /\ ui.h[h].pc = "scan"
    /\ ui.h[h].i > Len(ui.h[h].pids)
    /\ cache' = encodeProcessCache(cache, ps.m, "ok").cache
    /\ Goto(h, [HIdle EXCEPT !.pc = "render", !.got = ps])
    /\ UNCHANGED <<statfile, cfg, ps, procfs, ret, cli>>

\* the "/" handler stores what GetProcesses returned and renders it
UiRender(h) ==
    /\ ~ui.fatal
    /\ ui.h[h].pc = "render"
    /\ ui' = [ui EXCEPT !.h[h] = HIdle, !.PS = ui.h[h].got]
    /\ UNCHANGED <<statfile, cfg, ps, cache, procfs, ret, cli>>

\* "/refresh": ClearProcessCache, then a redirect to "/"
UiRefresh(h) ==
    /\ ~ui.fatal
    /\ ui.h[h].pc = "idle"
    /\ cache' = clearProcessCache(cache, TRUE).cache
    /\ UNCHANGED <<statfile, cfg, ps, procfs, ret, cli, ui>>

NextUI ==
    \E h \in Handlers :
       \/ UiGetFromCache(h)
       \/ UiGetCheck(h)
       \/ UiLoadStart(h)
       \/ UiScanStep(h)
       \/ UiScanEnd(h)
       \/ UiRender(h)
       \/ UiRefresh(h)

SpecUI == InitUI /\ [][NextUI]_vars

----------------------------------------------------------------------------
(* The stat parser on its own: stat files of every shape handed to LoadStat2 *)

\* filenames (comm) without a space, with one and with two
Comms == {<<"(", "a", ")">>, <<"(", "a", " ", "b", ")">>,
          <<"(", "a", " ", "b", " ", "c", ")">>}

\* what the kernel writes for an int field (ppid) and for an unsigned long
\* field (rsslim, startcode)
IntTokens == {Itoa(0), Itoa(7), Itoa(0 - 1), Itoa(MaxInt)}
UnsignedTokens == {Itoa(0), Itoa(7), Itoa(MaxInt), Itoa(MaxInt + 1), Itoa(MaxUint)}
\* tokens of a damaged record: not a number, empty
BadTokens == {<<"x">>, <<>>}

\* how many fields a record holds: a truncated record, the schema, and the
\* schema with one and two fields the parser does not know
RecordLens == {4, NumFields, NumFields + 1, NumFields + 2}

\* the fields of a record as the kernel wrote them: pid, comm, state, ppid,
\* then, under its number, every field but rsslim (25) and startcode (26)
FieldsOf(comm, ppid, ulong, len) ==
    [n \in 1..len |->
        CASE n = 2 -> comm
          [] n = 3 -> <<"S">>
          [] n = 4 -> ppid
          [] n \in {25, 26} -> ulong
          [] OTHER -> Itoa(n)]

\* the record "1002 (Thunar) S 898 ..." of the tests (StatData1002); the
\* values of more than four digits are cut to four, and rsslim is the
\* largest unsigned long, as in the record
ExampleTokens ==
    << <<"1", "0", "0", "2">>,
       <<"(", "T", "h", "u", "n", "a", "r", ")">>,
       <<"S">>,
       <<"8", "9", "8">>,
       <<"8", "9", "8">>,
       <<"8", "9", "8">>,
       <<"0">>,
       <<"-", "1">>,
       <<"4", "1", "9", "4", "3", "0", "4">>,
       <<"9", "0", "7", "5">>,
       <<"3", "1", "6", "1", "9">>,
       <<"1", "9">>,
       <<"0">>,
       <<"2", "4", "2">>,
       <<"5", "4">>,
       <<"4", "2">>,
       <<"7">>,
       <<"2", "0">>,
       <<"0">>,
       <<"3">>,
       <<"0">>,
       <<"4", "3", "1", "6">>,
       <<"4", "9", "9", "6">>,
       <<"1", "4", "5", "4", "5">>,
       Itoa(MaxUint),
       <<"9", "4", "6", "5">>,
       <<"9", "4", "6", "5">>,
       <<"1", "4", "0", "7">>,
       <<"0">>,
       <<"0">>,
       <<"0">>,
       <<"0">>,
       <<"4", "0", "9", "6">>,
       <<"0">>,
       <<"0">>,
       <<"0">>,
       <<"0">>,
       <<"1", "7">>,
       <<"1", "0">>,
       <<"0">>,
       <<"0">>,
       <<"0">>,
       <<"0">>,
       <<"0">>,
       <<"9", "4", "6", "5">>,
       <<"9", "4", "6", "5">>,
       <<"9", "4", "6", "5">>,
       <<"1", "4", "0", "7">>,
       <<"1", "4", "0", "7">>,
       <<"1", "4", "0", "7">>,
       <<"1", "4", "0", "7">>,
       <<"0">> >>

StatFileOf(readable, fields) ==
    [pc |-> "file", readable |-> readable, fields |-> fields,
     data |-> Join(fields, " "), parsed |-> <<>>]

InitStat ==
    /\ cfg = DefaultConfig
    /\ ps = NilPs
    /\ cache = NoCache
    /\ procfs = NoProcfs
    /\ ret = NoRet
    /\ cli = CliIdle
    /\ ui = UiIdle
    /\ \/ \E readable \in BOOLEAN, comm \in Comms, len \in RecordLens :
             \E ppid \in IntTokens \cup BadTokens, ulong \in UnsignedTokens \cup BadTokens :
                statfile = StatFileOf(readable, FieldsOf(comm, ppid, ulong, len))
       \/ statfile = StatFileOf(TRUE, ExampleTokens)

\* LoadStat2(procfsFp, pid) on the stat file
CallLoadStat2 ==
    /\ statfile.pc = "file"
    /\ statfile' = [statfile EXCEPT !.pc = "parsed", !.parsed = LoadStat2(statfile)]
    /\ UNCHANGED <<cfg, ps, cache, procfs, ret, cli, ui>>

NextStat == CallLoadStat2

SpecStat == InitStat /\ [][NextStat]_vars


----------------------------------------------------------------------------
(* Properties of the process store *)

\* two tables hold the same processes, field by field (a table of the
\* inspector against the snapshot's, or against another table)
SameEntries(m, w) ==
    /\ DOMAIN m = DOMAIN w
    /\ \A p \in DOMAIN m :
          /\ m[p].ID = w[p].ID
          /\ m[p].BinarySHA = w[p].BinarySHA
          /\ m[p].CommandName = w[p].CommandName
          /\ m[p].CommandPath = w[p].CommandPath
          /\ m[p].ParentProcess = w[p].ParentProcess
          /\ m[p].IsKernel = w[p].IsKernel
          /\ m[p].HasPermission = w[p].HasPermission
          /\ m[p].OSSpecific.stat = w[p].OSSpecific.stat

\* the table is what a scan of this procfs root builds: one entry per
\* process directory, under its pid, holding a freshly parsed stat record
FreshScanOf(t, fs) ==
    /\ ~t.nil
    /\ DOMAIN t.m = DOMAIN fs.dir
    /\ \A p \in DOMAIN t.m :
          /\ t.m[p].ID = p
          /\ t.m[p].ParentProcess = fs.dir[p]
          /\ t.m[p].OSSpecific.ptr

\* C1: GetProcesses on an inspector whose in-memory table is set returns that
\* table, without an error and without opening the snapshot file or listing
\* the procfs root, whether or not either of them still exists.
C1_MemoryTierReturnsTable ==
    [][(ret'.op = "Get" /\ ~ps.nil /\ GetProcesses) =>
          /\ ps' = ps
          /\ ret'.err = ""
          /\ ~ret'.readCache
          /\ ~ret'.readProcfs
          /\ cache' = cache]_vars

\* a GetProcesses answered from a non-empty in-memory table after the procfs
\* root and the snapshot were both removed
C1_Witness ==
    /\ ret.op = "Get" /\ ret.err = ""
    /\ ~ret.readCache /\ ~ret.readProcfs
    /\ ~ps.nil /\ DOMAIN ps.m # {}
    /\ ~procfs.exists
    /\ cache.state = "absent"

\* C2: with the in-memory table nil, IgnoreCache off and a snapshot that
\* decodes to a non-empty table, GetProcesses sets the in-memory table to the
\* snapshot's entries and returns it without listing procfs (so also when the
\* procfs root is gone); and GetProcesses opens the snapshot only when
\* IgnoreCache is off.
C2_SnapshotTier ==
    [][(ret'.op = "Get" /\ GetProcesses) =>
          /\ (ps.nil /\ ~cfg.IgnoreCache /\ cache.state = "gob" /\ DOMAIN cache.w # {}) =>
                /\ ~ps'.nil
                /\ SameEntries(ps'.m, cache.w)
                /\ ret'.err = ""
                /\ ret'.readCache
                /\ ~ret'.readProcfs
          /\ ret'.readCache => ~cfg.IgnoreCache]_vars

\* a GetProcesses answered from the snapshot while the procfs root is gone
C2_Witness ==
    /\ ret.op = "Get" /\ ret.err = ""
    /\ ret.readCache /\ ~ret.readProcfs
    /\ ~ps.nil /\ DOMAIN ps.m # {}
    /\ ~procfs.exists
    /\ ~cfg.IgnoreCache

\* C3: LoadProcesses replaces the in-memory table whatever it held (by an
\* empty table when the root cannot be listed), lists the procfs root, and
\* when it returns nil the table is the fresh scan and the snapshot was
\* written, and holds that table, exactly when IgnoreCache is off; with
\* IgnoreCache on the snapshot file is never touched.
C3_LoadProcessesRescans ==
    [][(ret'.op = "Load" /\ LoadProcesses) =>
          /\ ret'.readProcfs
          /\ ~ps'.nil
          /\ ~procfs.exists => (ps'.m = <<>> /\ ret'.err = "readdir")
          /\ ret'.err = "" =>
                /\ FreshScanOf(ps', procfs)
                /\ ret'.wrote <=> ~cfg.IgnoreCache
                /\ ~cfg.IgnoreCache => (cache'.state = "gob" /\ SameEntries(ps'.m, cache'.w))
          /\ cfg.IgnoreCache => (cache' = cache /\ ~ret'.wrote)]_vars

\* a LoadProcesses that returned nil, replaced a table read from the snapshot
\* and left the scanned table in the snapshot
C3_Witness ==
    /\ ret.op = "Load" /\ ret.err = "" /\ ret.wrote
    /\ ~cfg.IgnoreCache
    /\ DOMAIN ps.m # {}
    /\ cache.state = "gob" /\ SameEntries(ps.m, cache.w)

\* no process directory holds an exe link to a binary that cannot be opened
NoDeleted(fs) == \A p \in DOMAIN fs.dir : KindOf(p, fs.v) # "deleted"

C5_ClearOnlyRemovesSnapshot ==
    [][(ret'.op = "Clear" /\ ClearProcessCache) =>
          /\ ps' = ps
          /\ cache.state = "absent" => (ret'.err = "" /\ cache' = cache)
          /\ ret'.err = "" => cache'.state = "absent"
          /\ ret'.err # "" => cache' = cache]_vars

\* a ClearProcessCache that found no snapshot to remove, on an inspector
\* whose table is populated
C5_Witness ==
    /\ ret.op = "Clear" /\ ret.err = "" /\ ~ret.wrote
    /\ cache.state = "absent"
    /\ ~ps.nil /\ DOMAIN ps.m # {}

----------------------------------------------------------------------------
(* Properties of the web UI *)

\* C6: the handlers of the web UI run concurrently on one inspector, and no
\* GetProcesses call returns a table that a live scan has only partially
\* populated: a table returned without error holds every process of the root.
C6_NoPartialTable ==
    \A h \in Handlers :
       (ui.h[h].pc = "render" /\ ui.h[h].err = "") =>
          /\ ~ui.h[h].got.nil
          /\ DOMAIN ui.h[h].got.m = DOMAIN procfs.dir

----------------------------------------------------------------------------
(* Properties of the walks over parent links *)

\* the BinarySHA values of a chain of pids of table t, in chain order
SHAList(t, chain) == [i \in 1..Len(chain) |-> t.m[chain[i]].BinarySHA]

\* the concatenation of a sequence of strings, first to last
RECURSIVE Concat(_)
Concat(ss) == IF ss = <<>> THEN <<>> ELSE Head(ss) \o Concat(Tail(ss))

\* values a BinarySHA takes
AltSHAs == {LoadProcessSHA(pathA), LoadProcessSHA(pathB), permDenied, statError}

\* some process of the table has this command name
Named(t, name) == \E p \in DOMAIN t.m : t.m[p].CommandName = name

\* C7: every ancestry walk (tree, finger-print, resolvePIDRelationship)
\* ends within as many steps as the table has entries, whatever the parent
\* links are: the chain never grows longer than the table (one more for the
\* pid 1 that the resolver appends without looking it up).
C7_WalkWithinTableSize ==
    cli.pc \in {"walk", "done"} =>
       Len(cli.chain) <= Cardinality(DOMAIN ps.m) + 1

\* C8: a command given a pid that is not in the table, or the name-based
\* resolver given a name that no process has, ends with a not-found failure
\* and builds no chain.
C8_AbsentIsNotFound ==
    /\ (cli.cmd \in {"tree", "finger-print"} /\ cli.err # "collect" /\ Missing(ps, cli.pid)) =>
          (cli.pc = "failed" /\ cli.err = "notfound" /\ cli.chain = <<>>)
    /\ (cli.cmd = "relation" /\ cli.err # "collect" /\ ~Named(ps, cli.name)) =>
          (cli.pc = "failed" /\ cli.err = "notfound" /\ cli.chain = <<>>)

\* C9: finger-print fails when a member of the chain has HasPermission false
\* or an empty BinarySHA; it never takes a sentinel into the hashed text, so
\* every member of a chain it hashes has permission and a checksum.
C9_FingerPrintRejectsSentinels ==
    (cli.cmd = "finger-print" /\ cli.pc \in {"walk", "done"}) =>
       \A i \in 1..Len(cli.chain) :
          /\ ps.m[cli.chain[i]].HasPermission
          /\ ps.m[cli.chain[i]].BinarySHA \notin {<<>>, permDenied, statError}

\* C10: the finger-print printed is the lowercase hex digest of the
\* concatenation of the BinarySHA values of the chain, which starts at the
\* process asked for and follows parent links to a process whose parent is
\* 0; the text hashed is a function of those values alone, and replacing any
\* one member's BinarySHA by another value changes it.
C10_FingerPrintOfChain ==
    (cli.cmd = "finger-print" /\ cli.pc \in {"walk", "done"}) =>
       /\ cli.chain[1] = cli.pid
       /\ \A i \in 1..(Len(cli.chain) - 1) :
             cli.chain[i + 1] = ps.m[cli.chain[i]].ParentProcess
       /\ cli.hashes = Concat(SHAList(ps, cli.chain))
       /\ \A i \in 1..Len(cli.chain) :
             \A alt \in AltSHAs \ {ps.m[cli.chain[i]].BinarySHA} :
                Concat([SHAList(ps, cli.chain) EXCEPT ![i] = alt]) # cli.hashes
       /\ cli.pc = "done" =>
             /\ ps.m[cli.chain[Len(cli.chain)]].ParentProcess = 0
             /\ cli.out = EncodeToString(Sum256(Bytes(Concat(SHAList(ps, cli.chain)))))
             /\ Len(cli.out) = 2 * DigestBytes
             /\ \A j \in 1..Len(cli.out) : \E d \in 1..16 : HexDigits[d] = cli.out[j]

\* a finger-print printed for a chain of three processes, not all of the
\* same BinarySHA
C10_Witness ==
    /\ cli.cmd = "finger-print" /\ cli.pc = "done"
    /\ Len(cli.chain) = 3
    /\ ps.m[cli.chain[1]].BinarySHA # ps.m[cli.chain[2]].BinarySHA
    /\ cli.out # <<>>

\* a finished ancestry walk that started from a process of the table
WalkDoneFromPresent ==
    /\ cli.pc = "done"
    /\ cli.cmd \in {"tree", "relation"}
    /\ cli.cmd = "tree" => ~Missing(ps, cli.pid)
    /\ cli.cmd = "relation" => Named(ps, cli.name)

\* C11: an ancestry walk started from a process of the table returns that
\* process followed by its successive parents, each an entry of the table,
\* and stops at the root (pid 1, or a parent of 0) or at a parent that has no
\* entry; on {1: root, 50: parent 1, 99: parent 50} from 99 it returns
\* <<99, 50, 1>>.
C11_ChainOfSuccessiveParents ==
    WalkDoneFromPresent =>
       /\ \A i \in 1..Len(cli.chain) : ~Missing(ps, cli.chain[i])
       /\ \A i \in 1..(Len(cli.chain) - 1) :
             cli.chain[i + 1] = ParentOf(ps.m, cli.chain[i])
       /\ cli.cmd = "tree" => cli.chain[1] = cli.pid
       /\ cli.cmd = "relation" => ps.m[cli.chain[1]].CommandName = cli.name
       /\ \/ cli.chain[Len(cli.chain)] = 1
          \/ ParentOf(ps.m, cli.chain[Len(cli.chain)]) = 0
          \/ Missing(ps, ParentOf(ps.m, cli.chain[Len(cli.chain)]))
       /\ (DOMAIN ps.m = DOMAIN ExampleTable /\ cli.chain[1] = 99) =>
             cli.chain = <<99, 50, 1>>

----------------------------------------------------------------------------
(* Properties of the live scan and of the process loader *)

\* C12: a live scan of a root that can be listed never ends in a panic,
\* whatever the files of one process are: every enumerated process is in the
\* table it leaves.
C12_ScanSurvivesProcessFailure ==
    [][(ret'.op = "Load" /\ procfs.exists /\ LoadProcesses) =>
          /\ ret'.err # "panic"
          /\ DOMAIN ps'.m = DOMAIN procfs.dir]_vars

\* C13: within one scan no executable path is hashed twice, however many
\* processes of the scan run that executable.
C13_EachPathHashedOnce ==
    \A i, j \in 1..Len(ret.hashed) : ret.hashed[i] = ret.hashed[j] => i = j

\* C14: after a live scan by the inspector the table holds exactly the
\* enumerated processes that pass both inclusion policies: a kernel task is in
\* the table only if IncludeKernel is set, an entry without permission only if
\* IncludePermissionIssues is set, each policy on its own.
C14_ScanAppliesInclusionPolicies ==
    [][(ret'.op = "Load" /\ ret'.err = "" /\ LoadProcesses) =>
          /\ DOMAIN ps'.m \subseteq DOMAIN procfs.dir
          /\ \A p \in DOMAIN procfs.dir :
                \E r \in {LoadProcessStat(procfs, p).p} :
                   p \in DOMAIN ps'.m <=>
                      /\ (r.IsKernel => cfg.IncludeKernel)
                      /\ (~r.HasPermission => cfg.IncludePermissionIssues)]_vars

\* C15: a process whose exe link cannot be resolved for lack of permission is
\* stored with CommandPath and BinarySHA both the permission-denied sentinel
\* and HasPermission false, and in every Process of the table the permission
\* flag and the path sentinel agree.
C15_PermissionFlagAgreesWithPath ==
    \A p \in DOMAIN ps.m :
       /\ ExeLink(KindOf(p, procfs.v)).k = "perm" =>
             /\ ps.m[p].CommandPath = permDenied
             /\ ps.m[p].BinarySHA = permDenied
             /\ ~ps.m[p].HasPermission
       /\ ps.m[p].HasPermission <=> ps.m[p].CommandPath # permDenied

\* the filename token of process p's stat record in the configured root
StatName(fs, p) == Split(StatFile(p, KindOf(p, fs.v), fs.dir[p]), " ")[2]

\* C16: a process of the configured root whose exe link target does not exist
\* is stored as a kernel task (IsKernel true) whose CommandName is the
\* filename token of its stat record in that root, parentheses included.
C16_MissingExeIsKernelTask ==
    \A p \in DOMAIN ps.m :
       ExeLink(KindOf(p, procfs.v)).k = "noent" =>
          /\ ps.m[p].IsKernel
          /\ ps.m[p].CommandName = StatName(procfs, p)

----------------------------------------------------------------------------
(* Properties of the errors of the store and of the snapshot round trip *)

Unusable(c) == c.state \in {"absent", "garbage"} \/ (c.state = "gob" /\ DOMAIN c.w = {})

\* C18: with the in-memory table nil and IgnoreCache off, a snapshot that is
\* absent, empty, truncated or not decodable does not make GetProcesses fail:
\* GetProcesses opens it, gets nothing, and falls back to the live scan, so
\* that it fails only as LoadProcesses fails (root not listable, snapshot not
\* writable, binary not openable) and otherwise returns the fresh scan.
C18_UnusableSnapshotFallsBack ==
    [][(ret'.op = "Get" /\ ps.nil /\ ~cfg.IgnoreCache /\ Unusable(cache) /\ GetProcesses) =>
          /\ ret'.readCache
          /\ ret'.readProcfs
          /\ ret'.err = "readdir" <=> ~procfs.exists
          /\ ret'.err = "panic" => ~NoDeleted(procfs)
          /\ ret'.err = "encode" => cache' \in {cache, BadCache}
          /\ ret'.err \in {"", "readdir", "panic", "encode"}
          /\ ret'.err = "" =>
                /\ FreshScanOf(ps', procfs)
                /\ cache'.state = "gob" /\ SameEntries(ps'.m, cache'.w)]_vars

\* a GetProcesses that opened the snapshot, got nothing from it, scanned a
\* root with processes and returned the scan without error
C18_Witness ==
    /\ ret.op = "Get" /\ ret.err = ""
    /\ ret.readCache /\ ret.readProcfs
    /\ ~cfg.IgnoreCache
    /\ DOMAIN ps.m # {} /\ FreshScanOf(ps, procfs)

\* the table LoadProcesses builds from this procfs root and hands to
\* encodeProcessCache
ScannedTable(fs) == ScanFrom(fs, getPIDsFromProcfs(fs), 1, <<>>, <<>>).m

\* C19: the table that LoadProcesses wrote to the snapshot and that
\* GetProcesses reads back on an inspector whose in-memory table is nil, with
\* IgnoreCache off, equals the written table in every Process field, the
\* OSSpecific stat record included.
C19_SnapshotRoundTrip ==
    [][(/\ ret'.op = "Get" /\ ps.nil /\ ~cfg.IgnoreCache
        /\ ret'.readCache /\ ~ret'.readProcfs
        /\ GetProcesses) =>
          ps'.m = ScannedTable(procfs)]_vars

\* what a GetProcesses call hands to its caller: the in-memory table when it
\* returns nil as error, a nil table with an error
Returned(r, t) == IF r.err = "" THEN t ELSE NilPs

\* C20: two GetProcesses calls in succession on one inspector, with no
\* LoadProcesses (and no other call) between them, return identical tables.
C20_SuccessiveGetsAgree ==
    [][(ret.op = "Get" /\ ret'.op = "Get" /\ GetProcesses) =>
          Returned(ret', ps') = Returned(ret, ps)]_vars

----------------------------------------------------------------------------
(* Properties of the table entries and of the stat parser *)

\* the set of the elements of a sequence
Range(seq) == {seq[i] : i \in 1..Len(seq)}

\* C21: after a LoadProcesses that returned nil the table has one entry per
\* enumerated pid, the entry under key k has ID = k, and each entry's
\* ParentProcess is the ParentID parsed from that process's stat record (the
\* fourth token of the record, the parent the root records for it).
C21_EntriesKeyedByPid ==
    [][(ret'.op = "Load" /\ ret'.err = "" /\ LoadProcesses) =>
          /\ DOMAIN ps'.m = Range(getPIDsFromProcfs(procfs))
          /\ Cardinality(DOMAIN ps'.m) = Len(getPIDsFromProcfs(procfs))
          /\ \A k \in DOMAIN ps'.m :
                /\ ps'.m[k].ID = k
                /\ ps'.m[k].ParentProcess = ps'.m[k].OSSpecific.stat.ParentID
                /\ ps'.m[k].ParentProcess = procfs.dir[k]
                /\ ps'.m[k].OSSpecific.stat.ID = k]_vars

\* a LoadProcesses that returned nil with a table of several processes, one
\* of them the child of another
C21_Witness ==
    /\ ret.op = "Load" /\ ret.err = ""
    /\ Cardinality(DOMAIN ps.m) >= 2
    /\ \E k \in DOMAIN ps.m : ps.m[k].ParentProcess \in DOMAIN ps.m /\ ps.m[k].ID = k

\* the fields that LoadStat2 parses with Atoi
IntFields == (1..NumFields) \ (StrFields \cup HexFields)

\* field n of the parsed record is token n of toks, kept or converted as the
\* type of the field asks, for every n up to the number of tokens, and the
\* other fields are zero
ReadsInPlace(parsed, toks) ==
    /\ DOMAIN parsed = 1..NumFields
    /\ \A n \in 1..NumFields :
          /\ (n <= Len(toks) /\ n \in StrFields) => parsed[n] = toks[n]
          /\ (n <= Len(toks) /\ n \in IntFields) => parsed[n] = Atoi(toks[n]).v
          /\ (n <= Len(toks) /\ n \in HexFields) =>
                parsed[n] = <<"0", "x">> \o Hex(Atoi(toks[n]).v)
          /\ n > Len(toks) => parsed[n] = ZeroField(n)

\* C22: the stat parser maps the Nth space-delimited token of a record to the
\* Nth field of its 52-field schema, and tokens after the 52nd change no
\* field: the parse is that of the record cut after its 52nd token.  The
\* record "1002 (Thunar) S 898 ..." parses to ID 1002, FileName "(Thunar)",
\* ParentID 898.
C22_NthTokenToNthField ==
    (statfile.pc = "parsed" /\ statfile.readable) =>
       /\ \A toks \in {Split(statfile.data, " ")} : ReadsInPlace(statfile.parsed, toks)
       /\ Len(statfile.fields) > NumFields =>
             statfile.parsed =
                LoadStat2(StatFileOf(TRUE, SubSeq(statfile.fields, 1, NumFields)))
       /\ statfile.fields = ExampleTokens =>
             /\ statfile.parsed[1] = 1002
             /\ statfile.parsed[2] = <<"(", "T", "h", "u", "n", "a", "r", ")">>
             /\ statfile.parsed[4] = 898

\* a parsed record of 54 fields, two more than the schema, whose one-word
\* filename, ppid 7 and last known field (52) were read in place
C22_Witness ==
    /\ statfile.pc = "parsed" /\ statfile.readable
    /\ Len(statfile.fields) = NumFields + 2
    /\ statfile.parsed[2] = <<"(", "a", ")">>
    /\ statfile.parsed[4] = 7
    /\ statfile.parsed[NumFields] = NumFields

\* the fields whose token Atoi rejects, as not a number or as out of range,
\* hold zero (the address fields, the zero address)
RejectedAreZero(parsed, toks) ==
    \A n \in 1..NumFields :
       (n <= Len(toks) /\ Atoi(toks[n]).err) =>
          /\ n \in IntFields => parsed[n] = 0
          /\ n \in HexFields => parsed[n] = <<"0", "x", "0">>

\* C23: the stat parser never fails: a numeric token that cannot be parsed as
\* an int, because it is not a number or because it does not fit (as the
\* largest unsigned long of the test record), leaves its field at zero, and
\* a stat file that cannot be read yields the all-zero ProcessStat.
C23_UnparsableLeavesZero ==
    statfile.pc = "parsed" =>
       /\ DOMAIN statfile.parsed = 1..NumFields
       /\ ~statfile.readable => \A n \in 1..NumFields : statfile.parsed[n] = ZeroField(n)
       /\ statfile.readable =>
             \A toks \in {Split(statfile.data, " ")} : RejectedAreZero(statfile.parsed, toks)

\* a record as the kernel writes it, every field at its position: a filename
\* without a space, an int for ppid, an unsigned long for rsslim and
\* startcode, and all the fields of the schema
ValidPositional(f) ==
    /\ f.readable
    /\ Len(f.fields) >= NumFields
    /\ \A i \in 1..Len(f.fields[2]) : f.fields[2][i] # " "
    /\ f.fields[4] \in IntTokens
    /\ f.fields[25] \in UnsignedTokens

\* C24: for every valid positional stat record, the parsed numeric fields
\* written back in decimal are the tokens they were parsed from.
C24_NumericRoundTrip ==
    (statfile.pc = "parsed" /\ ValidPositional(statfile)) =>
       \A n \in IntFields : Itoa(statfile.parsed[n]) = statfile.fields[n]

\* the number of spaces in a string
Spaces(str) == Cardinality({i \in 1..Len(str) : str[i] = " "})

\* with k spaces in the filename, field n (from State on) is read k tokens
\* before its own: out of the filename's later words while n <= k + 2, then
\* out of the kernel's field n - k
ReadsShifted(parsed, fields, words, k) ==
    /\ parsed[1] = Atoi(fields[1]).v
    /\ parsed[2] = words[1]
    /\ \A n \in 3..NumFields :
          /\ n <= k + 2 => parsed[n] = ConvField(n, words[n - 1])
          /\ (n > k + 2 /\ n - k <= Len(fields)) => parsed[n] = ConvField(n, fields[n - k])
          /\ n - k > Len(fields) => parsed[n] = ZeroField(n)

\* C30: the stat tokenizer splits at every space and does not rejoin a
\* parenthesized filename.  For a filename without a space every field is
\* read from its true position; for a filename with k >= 1 spaces FileName
\* holds only the text before the first space, and State, ParentID and every
\* later field are read from the token k positions before their true one.
C30_FilenameSpacesShiftFields ==
    (statfile.pc = "parsed" /\ statfile.readable) =>
       \A k \in {Spaces(statfile.fields[2])} :
          /\ k = 0 => \A n \in 1..NumFields :
                         n <= Len(statfile.fields) =>
                            statfile.parsed[n] = ConvField(n, statfile.fields[n])
          /\ k >= 1 =>
                /\ Len(statfile.parsed[2]) < Len(statfile.fields[2])
                /\ Spaces(statfile.parsed[2]) = 0
                /\ \A words \in {Split(statfile.fields[2], " ")} :
                      ReadsShifted(statfile.parsed, statfile.fields, words, k)

\* the parse of a record whose filename is "(a b c)" and whose ppid is 7:
\* FileName is "(a", State is "b", ParentID is 0 (from "c)"), and the ppid
\* is found two fields later, in SessionID
C30_Witness ==
    /\ statfile.pc = "parsed" /\ statfile.readable
    /\ statfile.fields[2] = <<"(", "a", " ", "b", " ", "c", ")">>
    /\ statfile.fields[4] = <<"7">>
    /\ Len(statfile.fields) = NumFields
    /\ statfile.parsed[2] = <<"(", "a">>
    /\ statfile.parsed[3] = <<"b">>
    /\ statfile.parsed[4] = 0
    /\ statfile.parsed[6] = 7

----------------------------------------------------------------------------
(* Properties of cache resets: the CLI's --reset-cache and the UI's /refresh *)

\* C25: a CLI process command run with --reset-cache that returns process
\* data returns the table of a live scan made in that invocation, not the
\* content of a snapshot an earlier invocation wrote, and leaves the snapshot
\* replenished with that table.
C25_ResetCacheScansInInvocation ==
    (ret.op \in {"tree", "finger-print"} /\ ret.resetCache /\ ret.err = "") =>
       /\ ret.readProcfs
       /\ FreshScanOf(ps, procfs)
       /\ ret.wrote
       /\ cache.state = "gob" /\ SameEntries(ps.m, cache.w)

\* C26: over any sequence of LoadProcesses, GetProcesses and
\* ClearProcessCache calls on one inspector, a GetProcesses that returns
\* without error returns the table of a live scan that succeeded or of a
\* snapshot that decoded to a non-empty table (so never the table a failed
\* call left in memory); and once the procfs root could not be listed, while
\* it still cannot and there is no snapshot, GetProcesses reports an error.
C26_GetReturnsOnlySuccessfulLoads ==
    [][(ret'.op = "Get" /\ GetProcesses) =>
          /\ (ret'.err = "" /\ ret'.readProcfs) => FreshScanOf(ps', procfs)
          /\ (ret'.err = "" /\ ret'.readCache /\ ~ret'.readProcfs) =>
                (DOMAIN ps'.m # {} /\ SameEntries(ps'.m, cache.w))
          /\ (ret'.err = "" /\ ~ret'.readCache /\ ~ret'.readProcfs
                /\ ret.op \in {"Load", "Get"}) => ret.err # "readdir"
          /\ (ret.op \in {"Load", "Get"} /\ ret.err = "readdir"
                /\ ~procfs.exists /\ cache.state = "absent") => ret'.err # ""]_vars

(* Properties of the web UI's /refresh *)

\* C27: in the web UI, the request to "/" that follows a completed "/refresh"
\* (no snapshot on disk, no other request in flight) does not take the table
\* the inspector holds in memory: past the snapshot tier the table is nil, so
\* GetProcesses goes on to a new live scan.
C27_RefreshForcesLiveScan ==
    [][\A h \in Handlers :
          (cache.state = "absent" /\ (\A g \in Handlers : ui.h[g].pc = "idle")
             /\ UiGetFromCache(h)) => ps'.nil]_vars

(* Properties of the listing of the root *)

\* C28: a scan that succeeds has read every entry of the root whose name is
\* a number, whatever other entries the root holds and wherever they sort
\* in the listing: the pids of the table are exactly the process directories.
C28_EveryNumericEntryScanned ==
    (ret.op = "Load" /\ ret.err = "") => DOMAIN ps.m = DOMAIN procfs.dir

(* Properties of the chains the ancestry resolvers return *)

\* C29: every pid of a chain returned by an ancestry resolver (the loop of
\* `proctor process tree`, resolvePIDRelationship under
\* RunGetProcessForRelationship) is a key of the table the chain was resolved
\* against, whatever pid or name the walk was started from.
C29_ChainPidsAreKeys ==
    (cli.pc = "done" /\ cli.cmd \in {"tree", "relation"}) =>
       Range(cli.chain) \subseteq DOMAIN ps.m

====
